---------------------------- MODULE Spec2Model ----------------------------
(***************************************************************************)
(* Hearing-asymmetry screening: the trial sequencer of HearingScreeningApp *)
(* and the adaptive staircase controller AdaptiveThresholdTest of          *)
(* src/app/app.py, as a state machine driven by Tk timer callbacks         *)
(* (root.after) and key presses.                                           *)
(*                                                                         *)
(* Timers carry no clock in this model: any pending callback may fire      *)
(* next.  Every order the real delays allow is therefore included.         *)
(* A threshold is an exact rational [num, den] in lowest terms (the code   *)
(* holds an int or the float of numpy.mean).                               *)
(***************************************************************************)
EXTENDS Integers, Sequences, FiniteSets, TLC

(***************************************************************************)
(* Program constants                                                       *)
(***************************************************************************)
ConfiguredFrequencies == <<1000, 2000>>
reversals_target == 2
step_size_large == 20
step_size_small == 10
StartLevel == 0 - 10
max_trials == 10
\* analyze_asymmetry: the difference that flags one frequency, and the one
\* that flags two adjacent frequencies
AsymmetryLimit == 20
AdjacentLimit == 15
MinLevel == 0 - 60
MaxLevel == 0

Ears == <<"left", "right">>

(***************************************************************************)
(* Bounds of the model                                                     *)
(***************************************************************************)
\* how many of the configured frequencies a session tests
MaxFrequencies == 1
\* catch trials drawn in one session (random.random() < 0.03)
MaxCatch == 1
\* playback failures (play_test_tone returning False) in one session
MaxFail == 1
\* key presses of one session that are taken as a response
MaxHeard == 2
\* sessions started (begin_test) where Escape can be pressed, and presses of
\* Escape
MaxSessions == 2
MaxAborts == 1
\* frequencies of the sessions whose threshold maps are analysed
MaxAnalyzerFrequencies == 3

MaxToneFrequencies == 3

Callbacks == {"present_stimulus", "on_no_response", "run_trial"}

VARIABLES
    test_frequencies,    \* app.test_frequencies
    current_screen,      \* app.current_screen
    thresholds,          \* app.thresholds: [ear -> [freq -> threshold]]
    test_sequence,       \* app.test_sequence
    current_test_index,  \* app.current_test_index
    current_test,        \* app.current_test: 0 is None, else an index of tests
    tests,               \* every AdaptiveThresholdTest created so far
    next_timers,         \* pending root.after(500, run_next_threshold_test)
    catch_count,         \* catch trials drawn so far
    fail_count,          \* playback failures so far
    heard_count,         \* key presses taken as a response so far
    reports,             \* log of the calls of on_threshold_complete
    last_call,           \* the handler that ran in the last step, the test it
                         \* ran on, and whether its guard returned at once
    analysis,            \* what the results screen shows: <<>> or one result
                         \* of analyze_asymmetry
    session_log,         \* per begin_test: the tests and reports before it
    abort_log,           \* per confirmed Escape: the state it was pressed in
    variant,             \* the source file of the controller that runs
    tone_call            \* the frame of play_test_tone while it is looked
                         \* into: <<>> outside a call

vars == <<test_frequencies, current_screen, thresholds, test_sequence,
          current_test_index, current_test, tests, next_timers,
          catch_count, fail_count, heard_count, reports, last_call,
          analysis, session_log, abort_log, variant, tone_call>>

(***************************************************************************)
(* Arithmetic helpers                                                      *)
(***************************************************************************)
Abs(x) == IF x < 0 THEN 0 - x ELSE x

Max(a, b) == IF a >= b THEN a ELSE b

Min(a, b) == IF a <= b THEN a ELSE b

RECURSIVE Gcd(_, _)
Gcd(a, b) == IF b = 0 THEN a ELSE Gcd(b, a % b)

\* the rational n/d (d > 0) in lowest terms
Rat(n, d) ==
    LET g == Gcd(Abs(n), d)
    IN  [num |-> n \div g, den |-> d \div g]

RECURSIVE SumSeq(_)
SumSeq(s) == IF s = <<>> THEN 0 ELSE Head(s) + SumSeq(Tail(s))

\* the sum taken for the mean
Mean_undivided(s) == Rat(SumSeq(s), 1)

\* numpy.mean of a non-empty list of ints
Mean(s) == Rat(SumSeq(s), Len(s))

\* a - b, abs(a), a >= b and max(a, b) of rationals
RatSub(a, b) == Rat(a.num * b.den - b.num * a.den, a.den * b.den)

RatAbs(a) == [num |-> Abs(a.num), den |-> a.den]

RatGe(a, b) == a.num * b.den >= b.num * a.den

RatMax(a, b) == IF RatGe(a, b) THEN a ELSE b

\* sorted() of a list of ints
RECURSIVE Insert(_, _)
Insert(s, x) ==
    IF s = <<>> THEN <<x>>
    ELSE IF x < Head(s) THEN <<x>> \o s
         ELSE <<Head(s)>> \o Insert(Tail(s), x)

RECURSIVE sorted(_)
sorted(s) ==
    IF s = <<>> THEN <<>>
    ELSE Insert(sorted(SubSeq(s, 1, Len(s) - 1)), s[Len(s)])

RECURSIVE SelectNonCatch(_)
SelectNonCatch(rs) ==
    IF rs = <<>> THEN <<>>
    ELSE IF Head(rs).catch_trial THEN SelectNonCatch(Tail(rs))
         ELSE <<Head(rs)>> \o SelectNonCatch(Tail(rs))

RECURSIVE FlipLevels(_, _)
FlipLevels(vr, i) ==
    IF i > Len(vr) THEN <<>>
    ELSE IF vr[i].heard # vr[i - 1].heard
         THEN <<vr[i].level>> \o FlipLevels(vr, i + 1)
         ELSE FlipLevels(vr, i + 1)

(***************************************************************************)
(* AdaptiveThresholdTest: the object and its pure parts                    *)
(***************************************************************************)
NoTimers == [cb \in Callbacks |-> 0]

\* AdaptiveThresholdTest.__init__
NewTest(freq, ear) ==
    [frequency |-> freq, ear |-> ear,
     current_level |-> StartLevel,
     step_size |-> step_size_large,
     reversals |-> <<>>,
     responses |-> <<>>,
     trial_count |-> 0,
     consecutive_heard |-> 0,
     last_direction |-> "None",
     is_catch_trial |-> FALSE,
     waiting_for_response |-> FALSE,
     response_timer |-> "None",
     timers |-> NoTimers,
     live |-> TRUE]

\* an object that is neither app.current_test nor the target of a pending
\* callback is unreachable: its fields are dropped
Collect(T, cur) ==
    [k \in DOMAIN T |->
        IF k # cur /\ T[k].timers = NoTimers
        THEN [NewTest(T[k].frequency, T[k].ear) EXCEPT !.live = FALSE]
        ELSE T[k]]

\* app.root.after(ms, self.cb) of test t
Schedule(t, cb) == [t EXCEPT !.timers[cb] = @ + 1]

\* the timer machinery taking a due callback off the pending list; the id held
\* in response_timer stays truthy but no longer names a pending timer
Expire(t, cb) ==
    [t EXCEPT !.timers[cb] = @ - 1,
              !.response_timer =
                  IF cb = "on_no_response" /\ @ = "live" THEN "stale" ELSE @]

\* the clamp without its lower limit
Clamp_no_floor(new_level) == Min(MaxLevel, new_level)

Clamp(new_level) == Max(MinLevel, Min(MaxLevel, new_level))

\* the step switched at the second reversal instead of the first
RecordReversal_late_step(t) ==
    LET revs == Append(t.reversals, t.current_level)
    IN  [t EXCEPT !.reversals = revs,
                  !.step_size = IF Len(revs) >= 2 THEN step_size_small ELSE @]

\* the reversal bookkeeping shared by both branches of update_level
RecordReversal(t) ==
    LET revs == Append(t.reversals, t.current_level)
    IN  [t EXCEPT !.reversals = revs,
                  !.step_size = IF Len(revs) >= 1 THEN step_size_small ELSE @]

\* update_level recording the level after the move as the reversal
update_level_records_new_level(t, heard) ==
    IF heard
    THEN LET t1 == [t EXCEPT !.consecutive_heard = @ + 1]
         IN  IF t1.consecutive_heard >= 2
             THEN LET new_level == Clamp(t1.current_level - t1.step_size)
                      t2 == [t1 EXCEPT !.consecutive_heard = 0]
                      t3 == IF t2.last_direction = "up"
                            THEN RecordReversal([t2 EXCEPT
                                     !.current_level = new_level])
                            ELSE t2
                  IN  [t3 EXCEPT !.last_direction = "down",
                                 !.current_level = new_level]
             ELSE t1
    ELSE LET new_level == Clamp(t.current_level + t.step_size)
             t2 == [t EXCEPT !.consecutive_heard = 0]
             t3 == IF t2.last_direction = "down"
                   THEN RecordReversal([t2 EXCEPT !.current_level = new_level])
                   ELSE t2
         IN  [t3 EXCEPT !.last_direction = "up",
                        !.current_level = new_level]

\* update_level lowering the level on every heard tone
update_level_one_down(t, heard) ==
    IF heard
    THEN LET t1 == [t EXCEPT !.consecutive_heard = @ + 1]
         IN  IF t1.consecutive_heard >= 1
             THEN LET new_level == t1.current_level - t1.step_size
                      t2 == [t1 EXCEPT !.consecutive_heard = 0]
                      t3 == IF t2.last_direction = "up"
                            THEN RecordReversal(t2) ELSE t2
                  IN  [t3 EXCEPT !.last_direction = "down",
                                 !.current_level = Clamp(new_level)]
             ELSE [t1 EXCEPT !.current_level = Clamp(t1.current_level)]
    ELSE LET new_level == t.current_level + t.step_size
             t2 == [t EXCEPT !.consecutive_heard = 0]
             t3 == IF t2.last_direction = "down"
                   THEN RecordReversal(t2) ELSE t2
         IN  [t3 EXCEPT !.last_direction = "up",
                        !.current_level = Clamp(new_level)]

\* update_level taking the first movement of a run for a reversal
update_level_reverses_first_move(t, heard) ==
    IF heard
    THEN LET t1 == [t EXCEPT !.consecutive_heard = @ + 1]
         IN  IF t1.consecutive_heard >= 2
             THEN LET new_level == t1.current_level - t1.step_size
                      t2 == [t1 EXCEPT !.consecutive_heard = 0]
                      t3 == IF t2.last_direction # "down"
                            THEN RecordReversal(t2) ELSE t2
                  IN  [t3 EXCEPT !.last_direction = "down",
                                 !.current_level = Clamp(new_level)]
             ELSE [t1 EXCEPT !.current_level = Clamp(t1.current_level)]
    ELSE LET new_level == t.current_level + t.step_size
             t2 == [t EXCEPT !.consecutive_heard = 0]
             t3 == IF t2.last_direction # "up"
                   THEN RecordReversal(t2) ELSE t2
         IN  [t3 EXCEPT !.last_direction = "up",
                        !.current_level = Clamp(new_level)]

update_level(t, heard) ==
    IF heard
    THEN LET t1 == [t EXCEPT !.consecutive_heard = @ + 1]
         IN  IF t1.consecutive_heard >= 2
             THEN LET new_level == t1.current_level - t1.step_size
                      t2 == [t1 EXCEPT !.consecutive_heard = 0]
                      t3 == IF t2.last_direction = "up"
                            THEN RecordReversal(t2) ELSE t2
                  IN  [t3 EXCEPT !.last_direction = "down",
                                 !.current_level = Clamp(new_level)]
             ELSE [t1 EXCEPT !.current_level = Clamp(t1.current_level)]
    ELSE LET new_level == t.current_level + t.step_size
             t2 == [t EXCEPT !.consecutive_heard = 0]
             t3 == IF t2.last_direction = "down"
                   THEN RecordReversal(t2) ELSE t2
         IN  [t3 EXCEPT !.last_direction = "up",
                        !.current_level = Clamp(new_level)]

\* the labels of the test screen exist: clear_screen destroys them with
\* every other child of main_frame and show_test_screen makes them anew; a
\* .config call on a destroyed label raises TclError, which ends the callback
\* it is made in
WidgetsAlive == current_screen = "testing"

\* the dict appended to self.responses
Trial(t, heard) ==
    [level |-> t.current_level,
     heard |-> heard,
     catch_trial |-> t.is_catch_trial,
     correct |-> (heard = (~t.is_catch_trial))]

\* on_response without its waiting_for_response guard
on_response_no_guard(t, heard) ==
    LET t1 == [t EXCEPT !.waiting_for_response = FALSE,
                        !.timers["on_no_response"] =
                            IF t.response_timer = "live" THEN @ - 1 ELSE @,
                        !.response_timer = "None"]
        t2 == [t1 EXCEPT !.responses = Append(@, Trial(t1, heard))]
        t3 == IF ~t2.is_catch_trial THEN update_level(t2, heard) ELSE t2
    IN  IF WidgetsAlive THEN Schedule(t3, "run_trial") ELSE t2

\* on_response leaving waiting_for_response set
on_response_stays_waiting(t, heard) ==
    IF ~t.waiting_for_response
    THEN t
    ELSE LET t1 == [t EXCEPT !.timers["on_no_response"] =
                                 IF t.response_timer = "live" THEN @ - 1 ELSE @,
                             !.response_timer = "None"]
             t2 == [t1 EXCEPT !.responses = Append(@, Trial(t1, heard))]
             t3 == IF ~t2.is_catch_trial THEN update_level(t2, heard) ELSE t2
         IN  IF WidgetsAlive THEN Schedule(t3, "run_trial") ELSE t2

\* on_response moving the staircase on catch trials too
on_response_catch_moves(t, heard) ==
    IF ~t.waiting_for_response
    THEN t
    ELSE LET t1 == [t EXCEPT !.waiting_for_response = FALSE,
                             !.timers["on_no_response"] =
                                 IF t.response_timer = "live" THEN @ - 1 ELSE @,
                             !.response_timer = "None"]
             t2 == [t1 EXCEPT !.responses = Append(@, Trial(t1, heard))]
         IN  IF WidgetsAlive
             THEN Schedule(update_level(t2, heard), "run_trial")
             ELSE t2

\* on_response(heard): the object after the call
on_response(t, heard) ==
    IF ~t.waiting_for_response
    THEN t
    ELSE LET t1 == [t EXCEPT !.waiting_for_response = FALSE,
                             !.timers["on_no_response"] =
                                 IF t.response_timer = "live" THEN @ - 1 ELSE @,
                             !.response_timer = "None"]
             t2 == [t1 EXCEPT !.responses = Append(@, Trial(t1, heard))]
             t3 == IF ~t2.is_catch_trial THEN update_level(t2, heard) ELSE t2
         IN  IF WidgetsAlive THEN Schedule(t3, "run_trial") ELSE t2

\* on_no_response(): the object after the call
on_no_response(t) ==
    IF ~t.waiting_for_response THEN t ELSE on_response(t, FALSE)

\* complete_test reporting the last reversal alone
complete_test_last_reversal(t) ==
    IF t.reversals # <<>>
    THEN Rat(t.reversals[Len(t.reversals)], 1)
    ELSE Rat(t.current_level, 1)

\* complete_test without the mean of the flip levels
complete_test_skips_flips(t) ==
    IF Len(t.reversals) >= 2
    THEN Mean(SubSeq(t.reversals, Len(t.reversals) - 1, Len(t.reversals)))
    ELSE IF t.reversals # <<>>
    THEN Rat(t.reversals[Len(t.reversals)], 1)
    ELSE IF SelectNonCatch(t.responses) # <<>>
    THEN Rat(t.current_level, 1)
    ELSE Rat(0, 1)

\* the threshold complete_test computes
complete_test(t) ==
    IF Len(t.reversals) >= 2
    THEN Mean(SubSeq(t.reversals, Len(t.reversals) - 1, Len(t.reversals)))
    ELSE IF t.reversals # <<>>
    THEN Rat(t.reversals[Len(t.reversals)], 1)
    ELSE LET valid_responses == SelectNonCatch(t.responses)
         IN  IF valid_responses # <<>>
             THEN LET threshold_levels == FlipLevels(valid_responses, 2)
                  IN  IF threshold_levels # <<>>
                      THEN Mean(threshold_levels)
                      ELSE Rat(t.current_level, 1)
             ELSE Rat(0, 1)

\* the threshold complete_test of src/app.py computes: the mean of the last
\* two reversals, else the mean of the flip levels, else 0
legacy_complete_test(t) ==
    IF Len(t.reversals) >= 2
    THEN Mean(SubSeq(t.reversals, Len(t.reversals) - 1, Len(t.reversals)))
    ELSE LET valid_responses == SelectNonCatch(t.responses)
         IN  IF valid_responses # <<>>
             THEN LET threshold_levels == FlipLevels(valid_responses, 2)
                  IN  IF threshold_levels # <<>>
                      THEN Mean(threshold_levels)
                      ELSE Rat(0, 1)
             ELSE Rat(0, 1)

\* complete_test of the file that runs
Threshold(t) ==
    IF variant = "src/app.py" THEN legacy_complete_test(t)
                              ELSE complete_test(t)

(***************************************************************************)
(* HearingScreeningApp: the sequencer                                      *)
(***************************************************************************)
FrequencyConfigs ==
    {SubSeq(ConfiguredFrequencies, 1, n) :
        n \in 0 .. Min(MaxFrequencies, Len(ConfiguredFrequencies))}

Range(s) == {s[k] : k \in DOMAIN s}

Conditions(freqs) == {<<f, Ears[e]>> : f \in Range(freqs), e \in DOMAIN Ears}

\* the orders random.shuffle can leave the list in
Shuffles(S) ==
    {s \in [1 .. Cardinality(S) -> S] :
        \A a, b \in DOMAIN s : a # b => s[a] # s[b]}

EmptyMap == [x \in {} |-> 0]

(***************************************************************************)
(* HearingScreeningApp.analyze_asymmetry                                   *)
(***************************************************************************)
\* the locals of analyze_asymmetry before its first loop
AnalysisStart ==
    [asymmetry_detected |-> FALSE,
     max_difference |-> Rat(0, 1),
     problematic_frequencies |-> <<>>,
     differences |-> EmptyMap]

\* x appended to list s unless it is in it
AppendNew(s, x) == IF x \in {s[k] : k \in DOMAIN s} THEN s ELSE Append(s, x)

\* the loop "for freq in self.test_frequencies" from its k-th round on
RECURSIVE PerFrequencyLoop(_, _, _, _)

\* the loop flagging a difference only above AsymmetryLimit
PerFrequencyLoop_strict(freqs, th, k, acc) ==
    IF k > Len(freqs) THEN acc
    ELSE LET freq == freqs[k]
         IN  IF freq \in DOMAIN th["left"] /\ freq \in DOMAIN th["right"]
             THEN LET diff == RatAbs(RatSub(th["left"][freq],
                                            th["right"][freq]))
                      flagged == ~RatGe(Rat(AsymmetryLimit, 1), diff)
                  IN  PerFrequencyLoop(freqs, th, k + 1,
                        [asymmetry_detected |->
                             acc.asymmetry_detected \/ flagged,
                         max_difference |-> RatMax(acc.max_difference, diff),
                         problematic_frequencies |->
                             IF flagged
                             THEN Append(acc.problematic_frequencies, freq)
                             ELSE acc.problematic_frequencies,
                         differences |-> (freq :> diff) @@ acc.differences])
             ELSE PerFrequencyLoop(freqs, th, k + 1, acc)

\* the loop taking left - right without abs()
PerFrequencyLoop_signed(freqs, th, k, acc) ==
    IF k > Len(freqs) THEN acc
    ELSE LET freq == freqs[k]
         IN  IF freq \in DOMAIN th["left"] /\ freq \in DOMAIN th["right"]
             THEN LET diff == RatSub(th["left"][freq], th["right"][freq])
                      flagged == RatGe(diff, Rat(AsymmetryLimit, 1))
                  IN  PerFrequencyLoop(freqs, th, k + 1,
                        [asymmetry_detected |->
                             acc.asymmetry_detected \/ flagged,
                         max_difference |-> RatMax(acc.max_difference, diff),
                         problematic_frequencies |->
                             IF flagged
                             THEN Append(acc.problematic_frequencies, freq)
                             ELSE acc.problematic_frequencies,
                         differences |-> (freq :> diff) @@ acc.differences])
             ELSE PerFrequencyLoop(freqs, th, k + 1, acc)

PerFrequencyLoop(freqs, th, k, acc) ==
    IF k > Len(freqs) THEN acc
    ELSE LET freq == freqs[k]
         IN  IF freq \in DOMAIN th["left"] /\ freq \in DOMAIN th["right"]
             THEN LET diff == RatAbs(RatSub(th["left"][freq],
                                            th["right"][freq]))
                      flagged == RatGe(diff, Rat(AsymmetryLimit, 1))
                  IN  PerFrequencyLoop(freqs, th, k + 1,
                        [asymmetry_detected |->
                             acc.asymmetry_detected \/ flagged,
                         max_difference |-> RatMax(acc.max_difference, diff),
                         problematic_frequencies |->
                             IF flagged
                             THEN Append(acc.problematic_frequencies, freq)
                             ELSE acc.problematic_frequencies,
                         differences |-> (freq :> diff) @@ acc.differences])
             ELSE PerFrequencyLoop(freqs, th, k + 1, acc)

\* the loop "for i in range(len(freq_list) - 1)" from its i-th round on
\* (i counts from 1)
RECURSIVE AdjacentLoop(_, _, _)

\* the loop flagging a pair when either difference reaches AdjacentLimit
AdjacentLoop_either(freq_list, i, acc) ==
    IF i > Len(freq_list) - 1 THEN acc
    ELSE LET freq1 == freq_list[i]
             freq2 == freq_list[i + 1]
         IN  IF /\ freq1 \in DOMAIN acc.differences
                /\ freq2 \in DOMAIN acc.differences
                /\ \/ RatGe(acc.differences[freq1], Rat(AdjacentLimit, 1))
                   \/ RatGe(acc.differences[freq2], Rat(AdjacentLimit, 1))
             THEN AdjacentLoop(freq_list, i + 1,
                    [acc EXCEPT
                        !.asymmetry_detected = TRUE,
                        !.problematic_frequencies =
                            AppendNew(AppendNew(@, freq1), freq2)])
             ELSE AdjacentLoop(freq_list, i + 1, acc)

AdjacentLoop(freq_list, i, acc) ==
    IF i > Len(freq_list) - 1 THEN acc
    ELSE LET freq1 == freq_list[i]
             freq2 == freq_list[i + 1]
         IN  IF /\ freq1 \in DOMAIN acc.differences
                /\ freq2 \in DOMAIN acc.differences
                /\ RatGe(acc.differences[freq1], Rat(AdjacentLimit, 1))
                /\ RatGe(acc.differences[freq2], Rat(AdjacentLimit, 1))
             THEN AdjacentLoop(freq_list, i + 1,
                    [acc EXCEPT
                        !.asymmetry_detected = TRUE,
                        !.problematic_frequencies =
                            AppendNew(AppendNew(@, freq1), freq2)])
             ELSE AdjacentLoop(freq_list, i + 1, acc)

\* analyze_asymmetry() with self.test_frequencies = freqs and
\* self.thresholds = th
analyze_asymmetry(freqs, th) ==
    AdjacentLoop(sorted(freqs), 1, PerFrequencyLoop(freqs, th, 1, AnalysisStart))

Init ==
    /\ test_frequencies \in FrequencyConfigs
    /\ current_screen = "welcome"
    /\ thresholds = [e \in Range(Ears) |-> EmptyMap]
    /\ test_sequence = <<>>
    /\ current_test_index = 0
    /\ current_test = 0
    /\ tests = <<>>
    /\ next_timers = 0
    /\ catch_count = 0
    /\ fail_count = 0
    /\ heard_count = 0
    /\ reports = <<>>
    /\ last_call = [op |-> "init", test |-> 0, ignored |-> FALSE]
    /\ analysis = <<>>
    /\ session_log = <<>>
    /\ abort_log = <<>>
    /\ variant = "src/app/app.py"
    /\ tone_call = <<>>

\* HearingScreeningApp.on_threshold_complete, called by test number who while
\* nt calls of run_next_threshold_test are pending
on_threshold_complete(who, freq, ear, threshold, nt) ==
    /\ thresholds' = [thresholds EXCEPT ![ear] = (freq :> threshold) @@ @]
    /\ current_test_index' = current_test_index + 1
    /\ next_timers' = nt + 1
    /\ reports' = Append(reports,
                         [test |-> who, freq |-> freq, ear |-> ear,
                          threshold |-> threshold])

\* the random draw of run_trial, at most limit catch trials being drawn
CatchDraws(limit) == IF catch_count < limit THEN BOOLEAN ELSE {FALSE}

\* what play_test_tone can return, at most limit calls failing
PlayResults(limit) == IF fail_count < limit THEN BOOLEAN ELSE {TRUE}

\* run_trial ending the run at the trial cap alone
RunTrialBody_no_reversal_target(i, T, nt, cur, draws) ==
    IF T[i].trial_count >= max_trials
    THEN /\ tests' = Collect(T, cur)
         /\ on_threshold_complete(i, T[i].frequency, T[i].ear,
                                  Threshold(T[i]), nt)
         /\ UNCHANGED catch_count
    ELSE /\ \E c \in draws :
               LET t1 == [T[i] EXCEPT !.trial_count = @ + 1,
                                      !.is_catch_trial = c]
               IN  /\ tests' = Collect([T EXCEPT ![i] =
                                  IF WidgetsAlive
                                  THEN Schedule(t1, "present_stimulus")
                                  ELSE t1], cur)
                   /\ catch_count' = IF c THEN catch_count + 1 ELSE catch_count
         /\ next_timers' = nt
         /\ UNCHANGED <<thresholds, current_test_index, reports>>

\* run_trial ending the run only past the trial cap
RunTrialBody_late_cap(i, T, nt, cur, draws) ==
    IF T[i].trial_count > max_trials
          \/ Len(T[i].reversals) >= reversals_target
    THEN /\ tests' = Collect(T, cur)
         /\ on_threshold_complete(i, T[i].frequency, T[i].ear,
                                  Threshold(T[i]), nt)
         /\ UNCHANGED catch_count
    ELSE /\ \E c \in draws :
               LET t1 == [T[i] EXCEPT !.trial_count = @ + 1,
                                      !.is_catch_trial = c]
               IN  /\ tests' = Collect([T EXCEPT ![i] =
                                  IF WidgetsAlive
                                  THEN Schedule(t1, "present_stimulus")
                                  ELSE t1], cur)
                   /\ catch_count' = IF c THEN catch_count + 1 ELSE catch_count
         /\ next_timers' = nt
         /\ UNCHANGED <<thresholds, current_test_index, reports>>

\* run_trial() of test i, the objects being T and the pending calls of
\* run_next_threshold_test nt when it is entered; cur is app.current_test
\* and draws the outcomes of the catch-trial draw
RunTrialBody(i, T, nt, cur, draws) ==
    IF T[i].trial_count >= max_trials
          \/ Len(T[i].reversals) >= reversals_target
    THEN /\ tests' = Collect(T, cur)
         /\ on_threshold_complete(i, T[i].frequency, T[i].ear,
                                  Threshold(T[i]), nt)
         /\ UNCHANGED catch_count
    ELSE /\ \E c \in draws :
               LET t1 == [T[i] EXCEPT !.trial_count = @ + 1,
                                      !.is_catch_trial = c]
               IN  /\ tests' = Collect([T EXCEPT ![i] =
                                  IF WidgetsAlive
                                  THEN Schedule(t1, "present_stimulus")
                                  ELSE t1], cur)
                   /\ catch_count' = IF c THEN catch_count + 1 ELSE catch_count
         /\ next_timers' = nt
         /\ UNCHANGED <<thresholds, current_test_index, reports>>

\* present_stimulus() of test i, the objects being T when it is entered and
\* results what play_test_tone can return
PresentStimulusBody(i, T, results) ==
    LET t1 == [T[i] EXCEPT !.waiting_for_response = TRUE]
        armed == Schedule([t1 EXCEPT !.response_timer = "live"],
                          "on_no_response")
    IN  IF ~t1.is_catch_trial
        THEN \E success \in results :
                IF ~success
                THEN /\ tests' = Collect([T EXCEPT ![i] = t1], current_test)
                     /\ fail_count' = fail_count + 1
                     /\ on_threshold_complete(i, t1.frequency, t1.ear,
                                              Threshold(t1), next_timers)
                ELSE /\ tests' = Collect([T EXCEPT ![i] = armed], current_test)
                     /\ UNCHANGED <<fail_count, thresholds, current_test_index,
                                    next_timers, reports>>
        ELSE /\ tests' = Collect([T EXCEPT ![i] = armed], current_test)
             /\ UNCHANGED <<fail_count, thresholds, current_test_index,
                            next_timers, reports>>

begin_test ==
    /\ current_screen = "welcome"
    /\ current_screen' = "testing"
    /\ thresholds' = [e \in Range(Ears) |-> EmptyMap]
    /\ test_sequence' \in Shuffles(Conditions(test_frequencies))
    /\ current_test_index' = 0
    /\ next_timers' = next_timers + 1
    /\ last_call' = [op |-> "begin_test", test |-> 0, ignored |-> FALSE]
    /\ analysis' = <<>>
    /\ session_log' = Append(session_log, [tests |-> Len(tests),
                                           reports |-> Len(reports)])
    /\ UNCHANGED <<test_frequencies, current_test, tests, catch_count,
                   fail_count, heard_count, reports, abort_log, variant,
                   tone_call>>

\* a due root.after(500, self.run_next_threshold_test), draws being the
\* outcomes of the catch-trial draw of the first run_trial
RunNextTimer(draws) ==
    /\ next_timers > 0
    /\ IF current_test_index >= Len(test_sequence)
       THEN /\ current_screen' = "results"
            /\ next_timers' = next_timers - 1
            /\ last_call' = [op |-> "show_results_screen", test |-> 0, ignored |-> FALSE]
            /\ analysis' = <<analyze_asymmetry(test_frequencies, thresholds)>>
            /\ UNCHANGED <<thresholds, current_test_index, current_test,
                           tests, catch_count, reports>>
       ELSE IF ~WidgetsAlive
       THEN /\ next_timers' = next_timers - 1
            /\ last_call' = [op |-> "run_next_threshold_test", test |-> 0,
                             ignored |-> TRUE]
            /\ UNCHANGED <<current_screen, analysis, thresholds,
                           current_test_index, current_test, tests,
                           catch_count, reports>>
       ELSE LET cond == test_sequence[current_test_index + 1]
                i == Len(tests) + 1
            IN  /\ current_test' = i
                /\ RunTrialBody(i, Append(tests, NewTest(cond[1], cond[2])),
                                next_timers - 1, i, draws)
                /\ last_call' = [op |-> "run_next_threshold_test", test |-> i, ignored |-> FALSE]
                /\ UNCHANGED <<current_screen, analysis>>
    /\ UNCHANGED <<test_frequencies, test_sequence, fail_count, heard_count,
                   session_log, abort_log, variant, tone_call>>

\* a due root.after(300, self.run_trial) of some test
RunTrialTimer(draws) ==
    \E i \in DOMAIN tests :
        /\ tests[i].timers["run_trial"] > 0
        /\ RunTrialBody(i, [tests EXCEPT ![i] = Expire(@, "run_trial")],
                        next_timers, current_test, draws)
        /\ last_call' = [op |-> "run_trial", test |-> i, ignored |-> FALSE]
        /\ UNCHANGED <<test_frequencies, current_screen, test_sequence,
                       current_test, fail_count, heard_count, analysis,
                       session_log, abort_log, variant, tone_call>>

\* a due root.after(delay, self.present_stimulus) of some test
PresentStimulusTimer(results) ==
    \E i \in DOMAIN tests :
        /\ tests[i].timers["present_stimulus"] > 0
        /\ PresentStimulusBody(i,
               [tests EXCEPT ![i] = Expire(@, "present_stimulus")], results)
        /\ last_call' = [op |-> "present_stimulus", test |-> i, ignored |-> FALSE]
        /\ UNCHANGED <<test_frequencies, current_screen, test_sequence,
                       current_test, catch_count, heard_count, analysis,
                       session_log, abort_log, variant, tone_call>>

\* a due root.after(1000, self.on_no_response) of some test
response_timeout ==
    \E i \in DOMAIN tests :
        /\ tests[i].timers["on_no_response"] > 0
        /\ tests' = Collect([tests EXCEPT ![i] =
                         on_no_response(Expire(@, "on_no_response"))],
                            current_test)
        /\ last_call' = [op |-> "on_no_response", test |-> i,
                        ignored |-> ~tests[i].waiting_for_response]
        /\ UNCHANGED <<test_frequencies, current_screen, thresholds,
                       test_sequence, current_test_index, current_test,
                       next_timers, catch_count, fail_count, heard_count,
                       reports, analysis, session_log, abort_log, variant, tone_call>>

\* handle_keypress with event.keysym == 'space', at most limit presses of the
\* session being taken as a response
KeyPress(limit) ==
    /\ IF current_test # 0
       THEN /\ tests[current_test].waiting_for_response
                  => heard_count < limit
            /\ tests' = [tests EXCEPT ![current_test] = on_response(@, TRUE)]
            /\ heard_count' = IF tests[current_test].waiting_for_response
                              THEN heard_count + 1 ELSE heard_count
       ELSE UNCHANGED <<tests, heard_count>>
    /\ last_call' = [op |-> "handle_keypress", test |-> current_test,
                    ignored |-> IF current_test # 0
                                THEN ~tests[current_test].waiting_for_response
                                ELSE TRUE]
    /\ UNCHANGED <<test_frequencies, current_screen, thresholds,
                   test_sequence, current_test_index, current_test,
                   next_timers, catch_count, fail_count, reports, analysis,
                   session_log, abort_log, variant, tone_call>>

run_next_threshold_test == RunNextTimer(CatchDraws(MaxCatch))

handle_keypress == KeyPress(MaxHeard)

run_trial == RunTrialTimer(CatchDraws(MaxCatch))

present_stimulus == PresentStimulusTimer(PlayResults(MaxFail))

Next ==
    \/ begin_test
    \/ run_next_threshold_test
    \/ run_trial
    \/ present_stimulus
    \/ response_timeout
    \/ handle_keypress

Spec == Init /\ [][Next]_vars

(***************************************************************************)
(* One Controller run: the first AdaptiveThresholdTest of a session, for   *)
(* every subject, while the sequencer has not started a second one.  A     *)
(* controller reads nothing of the sequence it is part of, so the session  *)
(* is one of a single frequency (1000 Hz), either ear coming first.        *)
(***************************************************************************)
InitRun == Init /\ test_frequencies = SubSeq(ConfiguredFrequencies, 1, 1)

start_first_test == tests = <<>> /\ run_next_threshold_test

\* a run takes at most max_trials responses, so no press is refused here
run_keypress == KeyPress(2 * max_trials)

NextRun ==
    \/ begin_test
    \/ start_first_test
    \/ run_trial
    \/ present_stimulus
    \/ response_timeout
    \/ run_keypress

SpecRun == InitRun /\ [][NextRun]_vars

(***************************************************************************)
(* One Controller run of either file: src/app.py holds an older copy of    *)
(* AdaptiveThresholdTest whose complete_test differs                       *)
(***************************************************************************)
Variants == {"src/app/app.py", "src/app.py"}

InitVariants ==
    /\ test_frequencies = SubSeq(ConfiguredFrequencies, 1, 1)
    /\ current_screen = "welcome"
    /\ thresholds = [e \in Range(Ears) |-> EmptyMap]
    /\ test_sequence = <<>>
    /\ current_test_index = 0
    /\ current_test = 0
    /\ tests = <<>>
    /\ next_timers = 0
    /\ catch_count = 0
    /\ fail_count = 0
    /\ heard_count = 0
    /\ reports = <<>>
    /\ last_call = [op |-> "init", test |-> 0, ignored |-> FALSE]
    /\ analysis = <<>>
    /\ session_log = <<>>
    /\ abort_log = <<>>
    /\ variant \in Variants
    /\ tone_call = <<>>

SpecVariants == InitVariants /\ [][NextRun]_vars

(***************************************************************************)
(* A session of one frequency, both ears, of either file, up to its        *)
(* results screen: no trial is drawn as a catch trial, playback may fail,  *)
(* and the subject presses space only while the response window of a trial *)
(* is open                                                                 *)
(***************************************************************************)
session_run_next == RunNextTimer({FALSE})

session_run_trial == RunTrialTimer({FALSE})

session_keypress ==
    /\ current_test # 0
    /\ tests[current_test].timers["on_no_response"] > 0
    /\ KeyPress(2 * max_trials)

NextSession ==
    \/ begin_test
    \/ session_run_next
    \/ session_run_trial
    \/ present_stimulus
    \/ response_timeout
    \/ session_keypress

SpecSession == InitVariants /\ [][NextSession]_vars

(***************************************************************************)
(* Scenario A: one Controller run with a simulated subject who hears a     *)
(* tone exactly when its level is at least SubjectThreshold, never         *)
(* answers a catch trial, and answers only while a trial waits.  Playback  *)
(* works, and every trial may be drawn as a catch trial.                   *)
(***************************************************************************)
SubjectThreshold == 0 - 30

Audible(t) == ~t.is_catch_trial /\ t.current_level >= SubjectThreshold

scenario_heard ==
    /\ current_test # 0
    /\ tests[current_test].waiting_for_response
    /\ Audible(tests[current_test])
    /\ KeyPress(2 * max_trials)

scenario_silent ==
    /\ \A i \in DOMAIN tests :
          tests[i].timers["on_no_response"] > 0 => ~Audible(tests[i])
    /\ response_timeout

scenario_run_trial == RunTrialTimer(BOOLEAN)

scenario_present == PresentStimulusTimer({TRUE})

NextScenarioA ==
    \/ begin_test
    \/ start_first_test
    \/ scenario_run_trial
    \/ scenario_present
    \/ scenario_heard
    \/ scenario_silent

SpecScenarioA == InitRun /\ [][NextScenarioA]_vars

(***************************************************************************)
(* Abort: the sessions in which the subject may press Escape, and start    *)
(* again from the welcome screen.  Playback works, no catch trial is       *)
(* drawn and the subject answers no tone.                                  *)
(***************************************************************************)
\* handle_keypress with event.keysym == 'Escape'; confirmed is the answer of
\* messagebox.askyesno
escape_keypress ==
    /\ Len(abort_log) < MaxAborts
    /\ \E confirmed \in BOOLEAN :
          /\ IF confirmed
             THEN /\ current_screen' = "welcome"
                  /\ analysis' = <<>>
                  /\ abort_log' = Append(abort_log,
                        [screen |-> current_screen,
                         sessions |-> Len(session_log),
                         test |-> current_test,
                         tests |-> Len(tests),
                         reports |-> Len(reports),
                         trial_count |-> IF current_test # 0
                                         THEN tests[current_test].trial_count
                                         ELSE 0])
             ELSE UNCHANGED <<current_screen, analysis, abort_log>>
          /\ last_call' = [op |-> "escape", test |-> current_test,
                          ignored |-> ~confirmed]
    /\ UNCHANGED <<test_frequencies, thresholds, test_sequence,
                   current_test_index, current_test, tests, next_timers,
                   catch_count, fail_count, heard_count, reports,
                   session_log, variant, tone_call>>

\* begin_test is the last callback of the countdown (three ticks of 1000 ms
\* and a fourth after "GO!"), which starts after the screens that lead to it:
\* every callback that was pending when the welcome screen came up has fired
\* by then
abort_begin_test ==
    /\ Len(session_log) < MaxSessions
    /\ next_timers = 0
    /\ \A i \in DOMAIN tests : tests[i].timers = NoTimers
    /\ begin_test

abort_run_next == RunNextTimer({FALSE})

abort_run_trial == RunTrialTimer({FALSE})

abort_present == PresentStimulusTimer({TRUE})

NextAbort ==
    \/ abort_begin_test
    \/ abort_run_next
    \/ abort_run_trial
    \/ abort_present
    \/ response_timeout
    \/ escape_keypress

SpecAbort == InitRun /\ [][NextAbort]_vars

(***************************************************************************)
(* The analyzer: a session whose last condition has been reported, for     *)
(* every frequency list of AnalyzerConfigs and every threshold map over    *)
(* it, entries missing included (a condition can be skipped, see C11).     *)
(* The controllers are left out and the logs start here:                   *)
(* analyze_asymmetry reads test_frequencies and thresholds only.           *)
(***************************************************************************)
\* the two frequencies of src/app/app.py, then two more of src/app/new.py,
\* not in ascending order
AnalyzerFrequencies == ConfiguredFrequencies \o <<500, 4000>>

AnalyzerConfigs ==
    {SubSeq(AnalyzerFrequencies, 1, n) :
        n \in 0 .. Min(MaxAnalyzerFrequencies, Len(AnalyzerFrequencies))}

\* thresholds a run can report: -30, -25, -14, -12.5 and -5 dB
AnalyzerLevels ==
    {Rat(0 - 30, 1), Rat(0 - 25, 1), Rat(0 - 14, 1), Rat(0 - 25, 2),
     Rat(0 - 5, 1)}

ThresholdMaps(freqs) ==
    UNION {[S -> AnalyzerLevels] : S \in SUBSET Range(freqs)}

\* test_sequence as the loops of begin_test build it, left as it is by
\* random.shuffle
ConditionList(freqs) ==
    [k \in 1 .. 2 * Len(freqs) |->
        <<freqs[(k + 1) \div 2], Ears[((k - 1) % 2) + 1]>>]

InitAnalyzer ==
    /\ test_frequencies \in AnalyzerConfigs
    /\ current_screen = "testing"
    /\ thresholds \in [Range(Ears) -> ThresholdMaps(test_frequencies)]
    /\ test_sequence = ConditionList(test_frequencies)
    /\ current_test_index = Len(test_sequence)
    /\ current_test = 0
    /\ tests = <<>>
    /\ next_timers = 1
    /\ catch_count = 0
    /\ fail_count = 0
    /\ heard_count = 0
    /\ reports = <<>>
    /\ last_call = [op |-> "init", test |-> 0, ignored |-> FALSE]
    /\ analysis = <<>>
    /\ session_log = <<[tests |-> 0, reports |-> 0]>>
    /\ abort_log = <<>>
    /\ variant = "src/app/app.py"
    /\ tone_call = <<>>

\* run_next_threshold_test finding the sequence finished: show_results_screen
analyzer_results ==
    /\ current_test_index >= Len(test_sequence)
    /\ RunNextTimer({FALSE})

NextAnalyzer == analyzer_results

SpecAnalyzer == InitAnalyzer /\ [][NextAnalyzer]_vars

(***************************************************************************)
(* The analyzer of the Kivy variant, src/app/new.py                        *)
(***************************************************************************)
\* analyze_asymmetry() of src/app/new.py: the per-frequency loop alone, and
\* a result without problematic_frequencies and differences
kivy_analyze_asymmetry(freqs, th) ==
    LET r == PerFrequencyLoop(freqs, th, 1, AnalysisStart)
    IN  [asymmetry_detected |-> r.asymmetry_detected,
         max_difference |-> r.max_difference]

\* run_next_threshold_test of src/app/new.py finding the sequence finished
kivy_results ==
    /\ next_timers > 0
    /\ current_test_index >= Len(test_sequence)
    /\ current_screen' = "results"
    /\ next_timers' = next_timers - 1
    /\ analysis' = <<kivy_analyze_asymmetry(test_frequencies, thresholds)>>
    /\ last_call' = [op |-> "show_results_screen", test |-> 0,
                     ignored |-> FALSE]
    /\ UNCHANGED <<test_frequencies, thresholds, test_sequence,
                   current_test_index, current_test, tests, catch_count,
                   fail_count, heard_count, reports, session_log, abort_log, variant, tone_call>>

NextAnalyzerKivy == kivy_results

SpecAnalyzerKivy == InitAnalyzer /\ [][NextAnalyzerKivy]_vars

(***************************************************************************)
(* play_test_tone: one call, for every tested frequency, either ear and    *)
(* every level of the staircase.  A sample of the tone is kept as the      *)
(* factors of amplitude * sin(2 pi f t) * envelope: the level in dB, the   *)
(* cycles f t run through, and the envelope gain, both exact rationals.    *)
(***************************************************************************)
sample_rate == 44100

\* int(self.sample_rate * duration) with duration = 0.3
ToneSamples == (sample_rate * 3) \div 10

\* the fade taken as a twentieth of the buffer
FadeSamples_of_buffer == (ToneSamples * 5) \div 100

\* int(0.05 * self.sample_rate)
FadeSamples == (sample_rate * 5) \div 100

\* np.linspace(0, 1, n)[j] and np.linspace(1, 0, n)[j], j counted from 0
RampUp(n, j) == Rat(j, n - 1)

RampDown(n, j) == Rat(n - 1 - j, n - 1)

\* envelope[j] after the two slice assignments, the later one winning where
\* they overlap
Envelope(n, fade, j) ==
    IF j >= n - fade THEN RampDown(fade, j - (n - fade))
    ELSE IF j < fade THEN RampUp(fade, j)
    ELSE Rat(1, 1)

\* tone[j]: t[j] = j * duration / (n - 1)
ToneSample(frequency, level_db, n, fade, j) ==
    [db |-> level_db,
     cycles |-> Rat(frequency * 3 * j, 10 * (n - 1)),
     envelope |-> Envelope(n, fade, j)]

\* an element of np.zeros_like(tone)
ZeroSample == [value |-> 0]

\* the columns swapped
column_stack_swapped(frequency, ear, level_db, n, fade) ==
    [k \in 1 .. n |->
        IF ear = "left"
        THEN <<ZeroSample, ToneSample(frequency, level_db, n, fade, k - 1)>>
        ELSE <<ToneSample(frequency, level_db, n, fade, k - 1), ZeroSample>>]

\* stereo_tone: row k holds the left and the right sample of frame k
column_stack(frequency, ear, level_db, n, fade) ==
    [k \in 1 .. n |->
        IF ear = "left"
        THEN <<ToneSample(frequency, level_db, n, fade, k - 1), ZeroSample>>
        ELSE <<ZeroSample, ToneSample(frequency, level_db, n, fade, k - 1)>>]

\* the levels a staircase of 20 and 10 dB steps from -10 passes through
ToneLevels == {MinLevel + 10 * k : k \in 0 .. (MaxLevel - MinLevel) \div 10}

ToneFrequencies ==
    Range(SubSeq(AnalyzerFrequencies, 1,
                 Min(MaxToneFrequencies, Len(AnalyzerFrequencies))))

InitSynth ==
    /\ test_frequencies = ConfiguredFrequencies
    /\ current_screen = "testing"
    /\ thresholds = [e \in Range(Ears) |-> EmptyMap]
    /\ test_sequence = <<>>
    /\ current_test_index = 0
    /\ current_test = 0
    /\ tests = <<>>
    /\ next_timers = 0
    /\ catch_count = 0
    /\ fail_count = 0
    /\ heard_count = 0
    /\ reports = <<>>
    /\ last_call = [op |-> "play_test_tone", test |-> 0, ignored |-> FALSE]
    /\ analysis = <<>>
    /\ session_log = <<>>
    /\ abort_log = <<>>
    /\ variant \in Variants
    /\ \E f \in ToneFrequencies, e \in Range(Ears), l \in ToneLevels :
          tone_call = <<[pc |-> "called", frequency |-> f, ear |-> e,
                         level_db |-> l]>>

\* the body of play_test_tone up to np.column_stack
synthesize ==
    /\ tone_call # <<>>
    /\ tone_call[1].pc = "called"
    /\ LET c == tone_call[1]
       IN  tone_call' = <<[pc |-> "built", frequency |-> c.frequency,
                           ear |-> c.ear, level_db |-> c.level_db,
                           fade_samples |-> FadeSamples,
                           stereo_tone |->
                               column_stack(c.frequency, c.ear, c.level_db,
                                            ToneSamples, FadeSamples)]>>
    /\ UNCHANGED <<test_frequencies, current_screen, thresholds,
                   test_sequence, current_test_index, current_test, tests,
                   next_timers, catch_count, fail_count, heard_count, reports,
                   last_call, analysis, session_log, abort_log, variant>>

\* sd.play and the return: True, or False when sd.play raises
sd_play ==
    /\ tone_call # <<>>
    /\ tone_call[1].pc = "built"
    /\ \E success \in BOOLEAN :
          tone_call' = <<[tone_call[1] EXCEPT !.pc =
                             IF success THEN "True" ELSE "False"]>>
    /\ UNCHANGED <<test_frequencies, current_screen, thresholds,
                   test_sequence, current_test_index, current_test, tests,
                   next_timers, catch_count, fail_count, heard_count, reports,
                   last_call, analysis, session_log, abort_log, variant>>

NextSynth ==
    \/ synthesize
    \/ sd_play

SpecSynth == InitSynth /\ [][NextSynth]_vars

(***************************************************************************)
(* Properties of one Controller run                                        *)
(***************************************************************************)
Live == {i \in DOMAIN tests : tests[i].live}

InRange(level) == MinLevel <= level /\ level <= MaxLevel

Last(q) == q[Len(q)]

\* the reports made in the step
NewReports == {k \in DOMAIN reports' : k > Len(reports)}

\* C1: the level of every controller, and the level stored in every Trial it
\* has recorded, lies within [-60, 0] in every reachable state.
C1_LevelInRange ==
    \A i \in Live :
        /\ InRange(tests[i].current_level)
        /\ \A k \in DOMAIN tests[i].responses :
              InRange(tests[i].responses[k].level)

\* a controller sits at the floor after two heard tones presented at the floor
C1_Witness ==
    \E i \in Live :
        LET t == tests[i]
            n == Len(t.responses)
        IN  /\ n >= 2
            /\ t.current_level = MinLevel
            /\ t.responses[n].level = MinLevel /\ t.responses[n].heard
            /\ t.responses[n - 1].level = MinLevel /\ t.responses[n - 1].heard
            /\ ~t.responses[n].catch_trial /\ ~t.responses[n - 1].catch_trial
            /\ t.consecutive_heard = 0

\* C2: a threshold reported by a run that holds at least two reversals is
\* exactly half the sum of its last two reversals.
C2_MeanOfLastTwoReversals ==
    [][\A k \in NewReports :
          LET t == tests[reports'[k].test]
              n == Len(t.reversals)
          IN  n >= 2 =>
                /\ reports'[k].threshold.num * 2
                     = (t.reversals[n - 1] + t.reversals[n])
                          * reports'[k].threshold.den
                /\ reports'[k].threshold.den > 0]_vars

\* a run has reported the mean of two different reversals
C2_Witness ==
    \E k \in DOMAIN reports :
        LET t == tests[reports[k].test]
            n == Len(t.reversals)
        IN  /\ t.live /\ n >= 2
            /\ t.reversals[n - 1] # t.reversals[n]
            /\ reports[k].threshold
                 = Rat(t.reversals[n - 1] + t.reversals[n], 2)

RECURSIVE NumCatch(_)
NumCatch(rs) ==
    IF rs = <<>> THEN 0
    ELSE (IF Head(rs).catch_trial THEN 1 ELSE 0) + NumCatch(Tail(rs))

\* the catch trials the trial cap leaves room for beside the seven tones of the run
ScenarioCatchRoom == max_trials - 7

\* C3 as amended: in Scenario A a run with at most three catch trials reports
\* exactly -40, the mean of its reversals at -50 and -30.
C3_ScenarioA_Reports40 ==
    \A k \in DOMAIN reports :
        LET t == tests[reports[k].test]
        IN  NumCatch(t.responses) <= ScenarioCatchRoom
               => /\ reports[k].threshold = Rat(0 - 40, 1)
                  /\ t.reversals = <<0 - 50, SubjectThreshold>>

\* C3 as stated: in Scenario A the reported threshold lies within 5 dB of -30.
C3_ScenarioA_Within5 ==
    \A k \in DOMAIN reports :
        LET thr == reports[k].threshold
        IN  /\ (0 - 35) * thr.den <= thr.num
            /\ thr.num <= (0 - 25) * thr.den

\* a Scenario A run with three catch trials has reported at the trial cap
C3_Witness ==
    \E k \in DOMAIN reports :
        /\ NumCatch(tests[reports[k].test].responses) = ScenarioCatchRoom
        /\ tests[reports[k].test].trial_count = max_trials

\* C5: a key press or a timeout that arrives while the controller is not
\* waiting for a response changes nothing of the controller and schedules no
\* timer.
C5_Debounce ==
    [][/\ (/\ last_call'.op = "handle_keypress"
           /\ current_test # 0
           /\ ~tests[current_test].waiting_for_response)
          => UNCHANGED <<tests, thresholds, current_test_index, next_timers,
                         reports>>
       /\ \A i \in DOMAIN tests :
             (/\ last_call'.op = "on_no_response"
              /\ last_call'.test = i
              /\ tests[i].timers["on_no_response"] > 0
              /\ ~tests[i].waiting_for_response)
             => /\ tests' = [tests EXCEPT ![i] = Expire(@, "on_no_response")]
                /\ UNCHANGED <<thresholds, current_test_index, next_timers,
                               reports>>]_vars

\* a second press for a trial that a first press has resolved was ignored
\* during the inter-trial pause
C5_Witness ==
    /\ last_call.op = "handle_keypress"
    /\ last_call.ignored
    /\ last_call.test # 0
    /\ LET t == tests[last_call.test]
       IN  /\ t.timers["run_trial"] = 1
           /\ t.responses # <<>>
           /\ Last(t.responses).heard
           /\ ~t.waiting_for_response

\* C7: the response of a catch trial appends its Trial and leaves the level,
\* the step, the direction and the reversals as they were.
C7_CatchTrialFrame ==
    [][\A i \in DOMAIN tests :
          (/\ tests[i].waiting_for_response
           /\ tests[i].is_catch_trial
           /\ tests'[i].live
           /\ Len(tests'[i].responses) = Len(tests[i].responses) + 1)
          => /\ Last(tests'[i].responses).catch_trial
             /\ Last(tests'[i].responses).level = tests[i].current_level
             /\ SubSeq(tests'[i].responses, 1, Len(tests[i].responses))
                  = tests[i].responses
             /\ tests'[i].current_level = tests[i].current_level
             /\ tests'[i].step_size = tests[i].step_size
             /\ tests'[i].last_direction = tests[i].last_direction
             /\ tests'[i].reversals = tests[i].reversals]_vars

\* a false alarm on a catch trial is on record, in a run that has moved
\* before, and the next trial was presented at the same level
C7_Witness ==
    \E i \in Live :
        \E k \in 1 .. Len(tests[i].responses) - 1 :
            /\ tests[i].responses[k].catch_trial
            /\ tests[i].responses[k].heard
            /\ tests[i].responses[k + 1].level = tests[i].responses[k].level
            /\ tests[i].last_direction # "None"

StepMatchesReversals(t) ==
    t.step_size = IF t.reversals = <<>> THEN step_size_large
                                        ELSE step_size_small

\* C8: the step is the large one exactly while no reversal is recorded and the
\* small one from the first reversal on; it changes once, large to small, in
\* the step that records the first reversal.
C8_StepSize ==
    /\ [](\A i \in Live : StepMatchesReversals(tests[i]))
    /\ [][\A i \in DOMAIN tests :
             (tests'[i].live /\ tests'[i].step_size # tests[i].step_size)
             => /\ tests[i].step_size = step_size_large
                /\ tests'[i].step_size = step_size_small
                /\ tests[i].reversals = <<>>
                /\ Len(tests'[i].reversals) = 1]_vars

\* a run holds two reversals with the small step, and has moved by the small
\* step between two of its trials
C8_Witness ==
    \E i \in Live :
        /\ Len(tests[i].reversals) = 2
        /\ tests[i].step_size = step_size_small
        /\ \E k \in 1 .. Len(tests[i].responses) - 1 :
              Abs(tests[i].responses[k + 1].level - tests[i].responses[k].level)
                 = step_size_small

\* present_stimulus of test i runs in the step
Presents(i) ==
    tests'[i].timers["present_stimulus"] < tests[i].timers["present_stimulus"]

\* C9: a trial of a controller begins, and its stimulus is presented, only
\* when every earlier trial of that controller has its response recorded and
\* none awaits a response.
C9_SequentialTrials ==
    [][\A i \in DOMAIN tests :
          /\ (tests'[i].live
                 /\ tests'[i].trial_count = tests[i].trial_count + 1)
               => /\ ~tests[i].waiting_for_response
                  /\ Len(tests[i].responses) = tests[i].trial_count
          /\ Presents(i)
               => /\ ~tests[i].waiting_for_response
                  /\ Len(tests[i].responses) = tests[i].trial_count - 1]_vars

\* the stimulus of a later trial is out, every earlier trial being resolved
C9_Witness ==
    \E i \in Live :
        /\ tests[i].trial_count >= 2
        /\ tests[i].waiting_for_response
        /\ tests[i].timers["on_no_response"] = 1
        /\ Len(tests[i].responses) = tests[i].trial_count - 1
        /\ last_call = [op |-> "present_stimulus", test |-> i,
                        ignored |-> FALSE]

(***************************************************************************)
(* Properties of the session                                               *)
(***************************************************************************)
ReportsOf(i) == {k \in DOMAIN reports : reports[k].test = i}

Reported(i) == ReportsOf(i) # {}

HasTimer(i) == tests[i].timers # NoTimers

\* C4: no controller reports more than one threshold, and the sequencer has
\* advanced by no more than the controllers it has started.
C4_ReportedOnce ==
    /\ \A i \in DOMAIN tests : Cardinality(ReportsOf(i)) <= 1
    /\ current_test_index <= Len(tests)

\* C6: a key press or timeout handled by a controller that has reported its
\* threshold is ignored.
C6_ReportedIgnoresRespond ==
    (/\ last_call.op \in {"handle_keypress", "on_no_response"}
     /\ last_call.test # 0
     /\ Reported(last_call.test))
    => last_call.ignored

\* C10: at most one controller has a pending timer, a controller that has
\* reported has none, and every controller but the newest has reported.
C10_OneControllerAtATime ==
    /\ Cardinality({i \in DOMAIN tests : HasTimer(i)}) <= 1
    /\ \A i \in DOMAIN tests : Reported(i) => ~HasTimer(i)
    /\ \A i \in DOMAIN tests : i < Len(tests) => Reported(i)


\* the controllers that reported a threshold for condition c
ReportersOf(c) ==
    {reports[k].test :
        k \in {j \in DOMAIN reports :
                  reports[j].freq = c[1] /\ reports[j].ear = c[2]}}

\* C11: the test sequence of a session is a permutation of the conditions
\* (frequency, ear) without a repeat, and when the results screen is shown
\* every condition has been reported by exactly one controller and has a
\* threshold in the map.
C11_SequenceCoversConditions ==
    /\ current_screen # "welcome"
          => test_sequence \in Shuffles(Conditions(test_frequencies))
    /\ current_screen = "results"
          => \A c \in Conditions(test_frequencies) :
                /\ Cardinality(ReportersOf(c)) = 1
                /\ c[1] \in DOMAIN thresholds[c[2]]

\* C12: while the results screen is shown no controller writes the
\* threshold map.
C12_ResultsFreezeThresholds ==
    [][current_screen = "results"
          => thresholds' = thresholds /\ reports' = reports]_vars

\* test i reported its threshold out of present_stimulus, in a trial that has
\* no Trial record
EndedByPlaybackFailure(i) ==
    /\ tests[i].live
    /\ Reported(i)
    /\ tests[i].waiting_for_response
    /\ Len(tests[i].responses) < tests[i].trial_count

\* C15: a controller whose run was ended by a playback failure in trial k
\* records no Trial for trial k, starts no further trial, has no pending
\* callback and reports no second threshold, and the sequencer has a
\* run_next_threshold_test pending or has gone on.
C15_PlaybackFailureEndsRun ==
    [][\A i \in DOMAIN tests :
          EndedByPlaybackFailure(i)
          => /\ ~HasTimer(i)
             /\ tests'[i].live
                   => /\ tests'[i].responses = tests[i].responses
                      /\ tests'[i].trial_count = tests[i].trial_count
                      /\ tests'[i].timers = NoTimers
             /\ \A k \in DOMAIN reports' :
                   reports'[k].test = i => k \in DOMAIN reports]_vars

\* C16: a session over an empty frequency set never shows the results
\* screen, and the results screen is never shown with an empty threshold
\* map.
C16_EmptySetIsFatal ==
    current_screen = "results"
    => /\ test_frequencies # <<>>
       /\ \E e \in Range(Ears) : thresholds[e] # EmptyMap


(***************************************************************************)
(* Properties of an aborted session                                        *)
(***************************************************************************)
\* the confirmed presses of Escape made on the test screen
TestingAborts == {a \in DOMAIN abort_log : abort_log[a].screen = "testing"}

\* C13: after Escape is confirmed during testing, the controller that was
\* current has no pending callback, starts no further trial and reports no
\* threshold.
C13_AbortStopsController ==
    \A a \in TestingAborts :
        LET ab == abort_log[a]
        IN  ab.test # 0
            => /\ tests[ab.test].live
                     => /\ ~HasTimer(ab.test)
                        /\ tests[ab.test].trial_count = ab.trial_count
               /\ \A k \in DOMAIN reports :
                     k > ab.reports => reports[k].test # ab.test

\* C14: after Escape is confirmed during testing the threshold map is empty
\* until a later session fills it, and a later session's map receives no
\* threshold from a controller created before that session began.
C14_AbortDiscardsThresholds ==
    \A a \in TestingAborts :
        LET ab == abort_log[a]
        IN  IF Len(session_log) = ab.sessions
            THEN \A e \in Range(Ears) : thresholds[e] = EmptyMap
            ELSE \A k \in DOMAIN reports :
                    k > session_log[ab.sessions + 1].reports
                    => reports[k].test > session_log[ab.sessions + 1].tests


(***************************************************************************)
(* Properties of the analyzer                                              *)
(***************************************************************************)
Shown == analysis # <<>>

Result == analysis[1]

\* the frequencies that have a threshold for both ears
BothEars == DOMAIN thresholds["left"] \cap DOMAIN thresholds["right"]

\* |left - right| at frequency f as the fraction DiffNum(f) / DiffDen(f)
DiffNum(f) ==
    Abs(thresholds["left"][f].num * thresholds["right"][f].den
        - thresholds["right"][f].num * thresholds["left"][f].den)

DiffDen(f) == thresholds["left"][f].den * thresholds["right"][f].den

DiffAtLeast(f, n) == DiffNum(f) >= n * DiffDen(f)

\* the pairs of tested frequencies next to each other in ascending order
TestedAdjacent ==
    {p \in BothEars \X BothEars :
        /\ p[1] < p[2]
        /\ ~\E h \in BothEars : p[1] < h /\ h < p[2]}

BothAtLeast15(p) == DiffAtLeast(p[1], 15) /\ DiffAtLeast(p[2], 15)

\* Scenario B: left -30 dB and right -5 dB at 1000 Hz, nothing else
ScenarioB ==
    thresholds = [left |-> (1000 :> Rat(0 - 30, 1)),
                  right |-> (1000 :> Rat(0 - 5, 1))]

\* Scenario C: -25 dB for both ears at 1000 Hz and 2000 Hz
ScenarioC ==
    thresholds = [e \in Range(Ears) |->
                     (1000 :> Rat(0 - 25, 1)) @@ (2000 :> Rat(0 - 25, 1))]

\* C17: every frequency with thresholds for both ears that differ by 20 dB
\* or more makes asymmetry_detected true and is in problematic_frequencies;
\* Scenario B gives asymmetry with problematic frequencies exactly {1000}.
C17_PerFrequencyRule ==
    Shown
    => /\ \A f \in BothEars :
             DiffAtLeast(f, 20)
             => /\ Result.asymmetry_detected
                /\ f \in Range(Result.problematic_frequencies)
       /\ ScenarioB
             => /\ Result.asymmetry_detected
                /\ Range(Result.problematic_frequencies) = {1000}

C17_Witness ==
    /\ Shown
    /\ ScenarioB
    /\ Result.max_difference = Rat(25, 1)
    /\ Result.problematic_frequencies = <<1000>>

\* C18: every pair of tested frequencies next to each other in ascending
\* order whose differences are both 15 dB or more makes asymmetry_detected
\* true and puts both frequencies in problematic_frequencies.
C18_AdjacentRule ==
    Shown
    => \A p \in TestedAdjacent :
          BothAtLeast15(p)
          => /\ Result.asymmetry_detected
             /\ "problematic_frequencies" \in DOMAIN Result
             /\ {p[1], p[2]} \subseteq Range(Result.problematic_frequencies)

\* C19: when no frequency differs by 20 dB or more and no pair of adjacent
\* tested frequencies has both differences at 15 dB or more,
\* asymmetry_detected is false and problematic_frequencies is empty; equal
\* thresholds in both ears give no asymmetry.
C19_NoFalseFlag ==
    Shown
    => /\ (/\ \A f \in BothEars : ~DiffAtLeast(f, 20)
           /\ \A p \in TestedAdjacent : ~BothAtLeast15(p))
          => /\ ~Result.asymmetry_detected
             /\ Result.problematic_frequencies = <<>>
       /\ (\A f \in BothEars : thresholds["left"][f] = thresholds["right"][f])
          => ~Result.asymmetry_detected

C19_Witness ==
    /\ Shown
    /\ ScenarioC
    /\ ~Result.asymmetry_detected
    /\ Result.max_difference = Rat(0, 1)

\* C20: the keys of differences are exactly the frequencies with a threshold
\* for both ears, each mapped to |left - right|, and max_difference is the
\* largest of them, 0 when there is none.
C20_DifferencesMap ==
    Shown
    => /\ DOMAIN Result.differences = BothEars
       /\ \A f \in BothEars :
             /\ Result.differences[f].num >= 0
             /\ Result.differences[f].num * DiffDen(f)
                   = DiffNum(f) * Result.differences[f].den
       /\ IF BothEars = {}
          THEN Result.max_difference = Rat(0, 1)
          ELSE /\ \E f \in BothEars :
                     Result.max_difference = Result.differences[f]
               /\ \A f \in BothEars :
                     Result.max_difference.num * Result.differences[f].den
                        >= Result.differences[f].num
                              * Result.max_difference.den

C20_Witness ==
    /\ Shown
    /\ Cardinality(BothEars) = 2
    /\ \E f \in Range(test_frequencies) : f \notin BothEars
    /\ \E f, g \in BothEars :
          /\ Result.differences[f] = Rat(35, 2)
          /\ Result.differences[g] = Rat(9, 1)
          /\ thresholds["left"][g].num < thresholds["right"][g].num
    /\ Result.max_difference = Rat(35, 2)

(***************************************************************************)
(* Properties of one Controller run: its end, its staircase, its threshold *)
(***************************************************************************)
\* trial_count of test i before the step, 0 for an object the step creates
TrialsBefore(i) == IF i \in DOMAIN tests THEN tests[i].trial_count ELSE 0

ReversalsBefore(i) == IF i \in DOMAIN tests THEN tests[i].reversals ELSE <<>>

\* C22: a trial is started only while trial_count is below max_trials and the
\* reversals are fewer than reversals_target, so a run never counts more than
\* max_trials trials, catch trials included; and run_trial ends a run only
\* when one of the two limits is reached.
C22_RunEndsAtLimit ==
    /\ [](\A i \in Live : tests[i].trial_count <= max_trials)
    /\ [][/\ \A i \in DOMAIN tests' :
               (tests'[i].live /\ tests'[i].trial_count # TrialsBefore(i))
               => /\ tests'[i].trial_count = TrialsBefore(i) + 1
                  /\ TrialsBefore(i) < max_trials
                  /\ Len(ReversalsBefore(i)) < reversals_target
                  /\ last_call'.op \in {"run_trial", "run_next_threshold_test"}
          /\ (last_call'.op = "run_trial" /\ NewReports # {})
               => \A k \in NewReports :
                     LET t == tests[reports'[k].test]
                     IN  \/ t.trial_count >= max_trials
                         \/ Len(t.reversals) >= reversals_target]_vars

\* run_trial has ended a run at the trial cap, fewer than two reversals
\* being recorded, and catch trials being among its ten trials
C22_Witness ==
    /\ last_call.op = "run_trial"
    /\ reports # <<>>
    /\ LET t == tests[Last(reports).test]
       IN  /\ last_call.test = Last(reports).test
           /\ t.trial_count = max_trials
           /\ Len(t.responses) = max_trials
           /\ Len(t.reversals) < reversals_target
           /\ NumCatch(t.responses) > 0
           /\ t.timers = NoTimers

\* a response to a tone of test i is recorded in the step
Responds(i) ==
    /\ tests[i].waiting_for_response
    /\ ~tests[i].is_catch_trial
    /\ tests'[i].live
    /\ Len(tests'[i].responses) = Len(tests[i].responses) + 1

\* C23: a response to a tone at level L with step s leaves the level at L
\* when it is the first heard of a pair, sets it to max(-60, L - s) and the
\* consecutive-heard counter to 0 when it is the second heard in a row, and
\* sets it to min(0, L + s) and the counter to 0 when the tone was not heard
\* (or timed out); no other step changes the level.
C23_LevelUpdateRule ==
    [][\A i \in DOMAIN tests :
          LET L == tests[i].current_level
              s == tests[i].step_size
              n == tests[i].consecutive_heard
          IN  IF Responds(i)
              THEN IF Last(tests'[i].responses).heard
                   THEN IF n = 0
                        THEN /\ tests'[i].current_level = L
                             /\ tests'[i].consecutive_heard = 1
                        ELSE /\ tests'[i].current_level = Max(MinLevel, L - s)
                             /\ tests'[i].consecutive_heard = 0
                   ELSE /\ tests'[i].current_level = Min(MaxLevel, L + s)
                        /\ tests'[i].consecutive_heard = 0
              ELSE tests'[i].live => tests'[i].current_level = L]_vars

\* the level has gone down by the small step on the second of two heard
\* tones that a catch trial separates, and a timeout has raised it before
C23_Witness ==
    \E i \in Live :
        LET r == tests[i].responses
            n == Len(r)
        IN  /\ n >= 4
            /\ ~r[n].catch_trial /\ r[n].heard
            /\ r[n - 1].catch_trial
            /\ ~r[n - 2].catch_trial /\ r[n - 2].heard
            /\ \E k \in 1 .. n - 3 : ~r[k].catch_trial /\ ~r[k].heard
            /\ tests[i].current_level = r[n].level - step_size_small
            /\ tests[i].consecutive_heard = 0
            /\ tests[i].timers["run_trial"] = 1

\* the direction in which the response recorded in the step moves the level
\* of test i: "None" for a catch trial, for a first heard tone and for a step
\* that records no response
Movement(i) ==
    IF ~Responds(i) THEN "None"
    ELSE IF ~Last(tests'[i].responses).heard THEN "up"
    ELSE IF tests[i].consecutive_heard >= 1 THEN "down"
    ELSE "None"

\* C24: a step appends to the reversals of a controller exactly when the
\* response to a tone moves the level against the last direction, that
\* direction being "up" or "down"; it appends one value, the level the tone
\* was presented at, and the level differs from it afterwards.  No other step
\* changes the reversals.
C24_ReversalOnFlip ==
    [][\A i \in DOMAIN tests :
          tests'[i].live =>
             IF /\ Movement(i) # "None"
                /\ tests[i].last_direction # "None"
                /\ tests[i].last_direction # Movement(i)
             THEN /\ tests'[i].reversals
                       = Append(tests[i].reversals, tests[i].current_level)
                  /\ Last(tests'[i].responses).level
                       = Last(tests'[i].reversals)
                  /\ tests'[i].current_level # tests[i].current_level
             ELSE tests'[i].reversals = tests[i].reversals]_vars

\* a run whose first tone was missed holds two reversals, the second taken
\* at the level of a missed tone that raised the level by the small step
\* after a move down; a catch trial is on its record
C24_Witness ==
    \E i \in Live :
        LET t == tests[i]
            r == t.responses
            n == Len(r)
        IN  /\ Len(t.reversals) = 2
            /\ n >= 2
            /\ ~r[1].catch_trial /\ ~r[1].heard
            /\ ~r[n].catch_trial /\ ~r[n].heard
            /\ t.reversals[2] = r[n].level
            /\ t.current_level = r[n].level + step_size_small
            /\ t.last_direction = "up"
            /\ \E k \in 1 .. n - 1 : r[k].catch_trial

\* C30: in every reachable state a controller holds at most reversals_target
\* reversals, has recorded at most as many Trials as it has counted trials,
\* and has counted at most max_trials trials.
C30_CountersBounded ==
    \A i \in Live :
        /\ Len(tests[i].reversals) <= reversals_target
        /\ Len(tests[i].responses) <= tests[i].trial_count
        /\ tests[i].trial_count <= max_trials
        /\ tests[i].trial_count >= 0

\* the three limits are met at once: the response of the tenth trial has
\* recorded the second reversal
C30_Witness ==
    \E i \in Live :
        /\ Len(tests[i].reversals) = reversals_target
        /\ Len(tests[i].responses) = max_trials
        /\ tests[i].trial_count = max_trials
        /\ Last(tests[i].reversals) = Last(tests[i].responses).level
        /\ tests[i].timers["run_trial"] = 1

\* the levels of the flips among the responses to tones of controller t
Flips(t) == FlipLevels(SelectNonCatch(t.responses), 2)

\* C25 as stated: a run that reports with fewer than two reversals and at
\* least one flip among its responses to tones reports the mean of the flip
\* levels.
C25_MeanOfFlips ==
    [][\A k \in NewReports :
          LET t == tests[reports'[k].test]
          IN  (Len(t.reversals) < 2 /\ Flips(t) # <<>>)
                 => reports'[k].threshold = Mean(Flips(t))]_vars

\* C25 as amended: a run that reports with no reversal and at least one flip
\* reports the mean of the flip levels; a run that reports with one reversal
\* has a flip, and reports the level of that reversal in src/app/app.py and
\* the mean of the flip levels in src/app.py.
C25_MeanOfFlipsOrReversal ==
    [][\A k \in NewReports :
          LET t == tests[reports'[k].test]
          IN  /\ (t.reversals = <<>> /\ Flips(t) # <<>>)
                    => reports'[k].threshold = Mean(Flips(t))
              /\ Len(t.reversals) = 1
                    => /\ Flips(t) # <<>>
                       /\ reports'[k].threshold =
                            IF variant = "src/app/app.py"
                            THEN Rat(t.reversals[1], 1)
                            ELSE Mean(Flips(t))]_vars

\* a run without a reversal has reported a mean of flip levels that is not a
\* level of the staircase
C25_Witness ==
    \E k \in DOMAIN reports :
        LET t == tests[reports[k].test]
        IN  /\ t.live
            /\ t.reversals = <<>>
            /\ Len(Flips(t)) >= 2
            /\ reports[k].threshold = Mean(Flips(t))
            /\ reports[k].threshold.den > 1

\* C26: a run that reports with fewer than two reversals and no flip among
\* its responses to tones reports its current level when it has recorded a
\* response to a tone, and 0 when it has recorded none.
C26_CurrentLevelFallback ==
    [][\A k \in NewReports :
          LET t == tests[reports'[k].test]
          IN  (Len(t.reversals) < 2 /\ Flips(t) = <<>>)
                 => reports'[k].threshold =
                       IF SelectNonCatch(t.responses) # <<>>
                       THEN Rat(t.current_level, 1)
                       ELSE Rat(0, 1)]_vars

(***************************************************************************)
(* Properties of the thresholds of a session                               *)
(***************************************************************************)
RatInRange(lo, x, hi) == lo * x.den <= x.num /\ x.num <= hi * x.den

\* C29: every reported threshold lies within [-60, 0], whichever branch of
\* complete_test computed it, and every difference and the largest
\* difference of a displayed analysis lie within [0, 60].
C29_ThresholdsInRange ==
    /\ \A k \in DOMAIN reports :
          /\ reports[k].threshold.den > 0
          /\ RatInRange(MinLevel, reports[k].threshold, MaxLevel)
    /\ \A e \in Range(Ears) : \A f \in DOMAIN thresholds[e] :
          RatInRange(MinLevel, thresholds[e][f], MaxLevel)
    /\ analysis # <<>>
          => /\ RatInRange(0, analysis[1].max_difference, MaxLevel - MinLevel)
             /\ \A f \in DOMAIN analysis[1].differences :
                   RatInRange(0, analysis[1].differences[f],
                              MaxLevel - MinLevel)

\* the results screen shows the largest difference there can be: one ear
\* at the floor, the other at 0
C29_Witness ==
    /\ current_screen = "results"
    /\ analysis # <<>>
    /\ \E f \in DOMAIN analysis[1].differences :
          /\ analysis[1].differences[f] = Rat(MaxLevel - MinLevel, 1)
          /\ thresholds["left"][f] = Rat(MinLevel, 1)
          /\ thresholds["right"][f] = Rat(MaxLevel, 1)

(***************************************************************************)
(* Properties of the synthesizer                                           *)
(***************************************************************************)
\* the buffer of the call, once np.column_stack has built it
Built == tone_call # <<>> /\ tone_call[1].pc # "called"

\* a sample is 0.0: an element of the zeros, or a tone sample whose envelope
\* gain is 0 or whose sine is taken at a whole number of half cycles
IsZero(x) ==
    IF "value" \in DOMAIN x THEN x.value = 0
    ELSE \/ x.envelope.num = 0
         \/ (2 * x.cycles.num) % x.cycles.den = 0

\* the column of a channel in a row of the buffer
Channel(ear) == IF ear = "left" THEN 1 ELSE 2

OtherEar(ear) == IF ear = "left" THEN "right" ELSE "left"

\* C21: the buffer built for one ear holds only zero samples in the channel
\* of the other ear, for every frequency and level.
C21_ChannelRouting ==
    Built =>
       LET c == tone_call[1]
       IN  \A k \in DOMAIN c.stereo_tone :
              c.stereo_tone[k][Channel(OtherEar(c.ear))] = ZeroSample

\* a tone for the right ear at the floor level has been handed to sd.play:
\* its left channel is silent and its right channel is not
C21_Witness ==
    /\ Built
    /\ LET c == tone_call[1]
       IN  /\ c.pc = "True"
           /\ c.ear = "right"
           /\ c.level_db = MinLevel
           /\ Len(c.stereo_tone) = ToneSamples
           /\ \A k \in DOMAIN c.stereo_tone : IsZero(c.stereo_tone[k][1])
           /\ \E k \in DOMAIN c.stereo_tone : ~IsZero(c.stereo_tone[k][2])

\* the envelope gain of the tone sample in row k of the buffer
Gain(c, k) == c.stereo_tone[k][Channel(c.ear)].envelope

BelowOne(g) == g.num < g.den

\* C27 as stated: the fade-in and the fade-out each take 5% of the samples of
\* the buffer, in integer arithmetic (661 of 13230).
C27_FadeIsTwentiethOfBuffer ==
    Built =>
       LET c == tone_call[1]
       IN  c.fade_samples = (Len(c.stereo_tone) * 5) \div 100

\* C27 as amended: at 44100 samples per second the 0.3 s buffer holds 13230
\* samples and the fade-in and the fade-out each take int(0.05 * 44100) =
\* 2205 of them, 50 ms, a sixth of the buffer: the gain rises from 0 at the
\* first sample to 1 at sample 2205, stays 1, and falls from 1 at sample
\* 11026 to 0 at the last.
C27_FadeIsFiftyMilliseconds ==
    Built =>
       LET c == tone_call[1]
           n == Len(c.stereo_tone)
       IN  /\ n = 13230
           /\ c.fade_samples = 2205
           /\ c.fade_samples * 20 = sample_rate
           /\ c.fade_samples * 6 = n
           /\ Gain(c, 1).num = 0
           /\ Gain(c, n).num = 0
           /\ \A k \in 1 .. n :
                 BelowOne(Gain(c, k))
                    <=> (k < c.fade_samples \/ k > n - c.fade_samples + 1)

\* a buffer has been built whose gain is still below 1 at sample 661 and
\* reaches 1 at sample 2205
C27_Witness ==
    /\ Built
    /\ LET c == tone_call[1]
       IN  /\ c.pc = "built"
           /\ c.ear = "left"
           /\ Gain(c, 661) = Rat(660, 2204)
           /\ BelowOne(Gain(c, 2204))
           /\ Gain(c, 2205) = Rat(1, 1)
           /\ Gain(c, 11026) = Rat(1, 1)
           /\ BelowOne(Gain(c, 11027))

(***************************************************************************)
(* Termination                                                             *)
(***************************************************************************)
\* C28, the part of it a single state can refute: a controller that has been
\* started and has not reported a threshold has a callback pending, so that
\* the firing of timers alone carries it on to its report, and a session that
\* is at its results screen has no run left without a report.
C28_EveryRunReports ==
    \A i \in DOMAIN tests : ReportsOf(i) # {} \/ HasTimer(i)

=============================================================================
